---- MODULE Spec2Model ----
(***************************************************************************)
(* Model of src/main.py: the e-ikamet status checker.  One inbound HTTP    *)
(* request opens a browser session, pre-fills the form, runs the captcha   *)
(* retry loop of solve_eikamet_captcha against the solving service         *)
(* (CaptchaSolver), relays the result to Telegram and answers the request. *)
(* Every per-request piece of state is a function over Requests.  Strings  *)
(* the code computes on (startswith, upper, strip, ==) are sequences of    *)
(* one-character strings, so that those computations are really done.      *)
(***************************************************************************)
EXTENDS Integers, Sequences, FiniteSets, TLC

(***************************************************************************)
(* Bounds of the model (not program constants).                            *)
(***************************************************************************)
\* "not ready" answers the service may give to the polls of one attempt
MaxPolls == 2
\* wrong-captcha rejections the target site may give in one run
MaxRejections == 2
\* cap on the submissions of one run (never reached by the code as written:
\* at most 4 failing solves plus MaxRejections + 1 successful ones)
MaxSubmissions == 9
\* rejections by the site per request while two requests interleave
MaxRejectionsConc == 1

Requests == {"r1", "r2"}

None == <<"None">>

(***************************************************************************)
(* Strings as character sequences.                                         *)
(***************************************************************************)
LowerCase == <<"a","b","c","d","e","f","g","h","i","j","k","l","m",
               "n","o","p","q","r","s","t","u","v","w","x","y","z">>
UpperCase == <<"A","B","C","D","E","F","G","H","I","J","K","L","M",
               "N","O","P","Q","R","S","T","U","V","W","X","Y","Z">>
Whitespace == {" ", "\n", "\t"}

\* str.upper() on one character
UpperChar(c) ==
    IF \E i \in DOMAIN LowerCase : LowerCase[i] = c
    THEN UpperCase[CHOOSE i \in DOMAIN LowerCase : LowerCase[i] = c]
    ELSE c

\* str.upper()
Upper(s) == [i \in DOMAIN s |-> UpperChar(s[i])]

\* str.startswith(prefix)
StartsWith(s, prefix) ==
    /\ Len(prefix) <= Len(s)
    /\ SubSeq(s, 1, Len(prefix)) = prefix

RECURSIVE LStrip(_)
LStrip(s) ==
    IF s # <<>> /\ Head(s) \in Whitespace THEN LStrip(Tail(s)) ELSE s

RECURSIVE RStrip(_)
RStrip(s) ==
    IF s # <<>> /\ s[Len(s)] \in Whitespace
    THEN RStrip(SubSeq(s, 1, Len(s) - 1))
    ELSE s

\* str.strip()
Strip(s) == RStrip(LStrip(s))

(***************************************************************************)
(* Program constants.                                                      *)
(***************************************************************************)
WRONG_CAPTCHA_ERROR_MESSAGE ==
    <<"I","m","a","g","e"," ","v","e","r","i","f","i","c","a","t","i","o","n",
      " ","f","a","i","l","s",".">>
CAPCHA_NOT_READY ==
    <<"C","A","P","C","H","A","_","N","O","T","_","R","E","A","D","Y">>
ERROR_PREFIX == <<"E","R","R","O","R">>
UNKNOWN_STATUS ==
    <<"U","n","k","n","o","w","n"," ","s","t","a","t","u","s">>
\* the page elements the code looks up
APPLICATION_FIELD_ID == "basvuruNo"
EMAIL_FIELD_ID == "ePosta"
PASSPORT_FIELD_ID == "pasaportBelgeNo"
CAPTCHA_FIELD_ID == "CaptchaInputText"
CAPTCHA_IMAGE_FIELD_ID == "CaptchaImage"
BUTTON_CSS_SELECTOR == "button.btn-login"
RESULT_ELEMENT_CSS_SELECTOR == "span.noty_text"
REFRESH_CAPTCHA_BUTTON_TITLE == "Click to refresh the image verification code."
BODY_TAG == "body"
\* the threshold of `if bad_captcha_attempts > 2`
BadAttemptsThreshold == 2

(***************************************************************************)
(* What the outside world can answer.                                      *)
(***************************************************************************)
\* texts the solving service may recognise
ServiceTexts == { <<"a","b","1","2">>, <<"A","B","1","2">>, <<"1","1","2","2">> }
ERROR_CAPTCHA_UNSOLVABLE == ERROR_PREFIX \o <<"_","U","N","S","O","L","V","A","B","L","E">>
ERROR_ZERO_BALANCE == ERROR_PREFIX \o <<"_","Z","E","R","O","_","B","A","L","A","N","C","E">>

\* the task id the service assigns to its n-th submission
TaskId(n) == <<"task", ToString(n)>>
\* the service never hands out an id twice: the ids of the second request
\* start after the last id the first one can get
IdBase(r) == IF r = "r1" THEN 0 ELSE MaxSubmissions
\* the captcha image shown to, and the page rendered for, the n-th attempt
CaptchaImage(n) == <<"captcha", ToString(n)>>
PageScreenshot(n) == <<"page", ToString(n)>>

\* no HTTP response read yet
NoResponse == [transport |-> "none", http_ok |-> FALSE, parsable |-> FALSE,
               status |-> 0, request |-> <<>>]

\* answers of in.php to the n-th submission: a transport failure, or an HTTP
\* response with its status, whether its body parses, and the payload
SubmitResponses(n) ==
    { [transport |-> "error", http_ok |-> FALSE, parsable |-> FALSE,
       status |-> 0, request |-> <<>>] }
    \cup
    { [transport |-> "ok", http_ok |-> h, parsable |-> p,
       status |-> 0, request |-> ERROR_ZERO_BALANCE] : h, p \in BOOLEAN }
    \cup
    { [transport |-> "ok", http_ok |-> TRUE, parsable |-> TRUE,
       status |-> 1, request |-> TaskId(n)] }

\* answers of res.php?action=get
PollResponses ==
    { [transport |-> "error", http_ok |-> FALSE, parsable |-> FALSE,
       status |-> 0, request |-> <<>>],
      [transport |-> "ok", http_ok |-> TRUE, parsable |-> FALSE,
       status |-> 0, request |-> <<>>] }
    \cup
    { [transport |-> "ok", http_ok |-> TRUE, parsable |-> TRUE,
       status |-> st, request |-> CAPCHA_NOT_READY] : st \in {0, 1} }
    \cup
    { [transport |-> "ok", http_ok |-> TRUE, parsable |-> TRUE,
       status |-> st, request |-> ERROR_CAPTCHA_UNSOLVABLE] : st \in {0, 1} }
    \cup
    { [transport |-> "ok", http_ok |-> TRUE, parsable |-> TRUE,
       status |-> st, request |-> t] : st \in {0, 1}, t \in ServiceTexts }

\* what the page shows after the login click: no span.noty_text, or one with a text
APPROVED == <<"A","p","p","r","o","v","e","d">>
SiteResults ==
    { [present |-> FALSE, text |-> <<>>],
      [present |-> TRUE, text |-> WRONG_CAPTCHA_ERROR_MESSAGE],
      [present |-> TRUE, text |-> <<" ">> \o WRONG_CAPTCHA_ERROR_MESSAGE \o <<"\n">>],
      [present |-> TRUE, text |-> SubSeq(WRONG_CAPTCHA_ERROR_MESSAGE, 1,
                                          Len(WRONG_CAPTCHA_ERROR_MESSAGE) - 1)],
      [present |-> TRUE, text |-> APPROVED] }

(***************************************************************************)
(* The code's decisions, as operators.                                     *)
(***************************************************************************)
\* a variant of solve_captcha that does not keep the task id
SubmitOutcomeKeyNotStored(resp) ==
    IF resp.transport = "error"
    THEN [raises |-> "ClientError", key |-> None]
    ELSE IF ~resp.http_ok
    THEN [raises |-> "SolveCaptchaException", key |-> None]
    ELSE IF ~resp.parsable
    THEN [raises |-> "NameError", key |-> None]
    ELSE IF resp.status # 1
    THEN [raises |-> "SolveCaptchaException", key |-> None]
    ELSE [raises |-> "", key |-> None]

\* CaptchaSolver.solve_captcha up to the assignment of captcha_key.  An
\* unparsable body makes captcha_response.json() raise; matching the raised
\* exception against `except json.JSONDecodeError` evaluates the name json,
\* which the module never imports: NameError.
SubmitOutcome(resp) ==
    IF resp.transport = "error"
    THEN [raises |-> "ClientError", key |-> None]
    ELSE IF ~resp.http_ok
    THEN [raises |-> "SolveCaptchaException", key |-> None]
    ELSE IF ~resp.parsable
    THEN [raises |-> "NameError", key |-> None]
    ELSE IF resp.status # 1
    THEN [raises |-> "SolveCaptchaException", key |-> None]
    ELSE [raises |-> "", key |-> resp.request]

\* a variant that tests the status before the "not ready" marker
PollOutcomeStatusFirst(resp) ==
    IF resp.transport = "error"
    THEN [kind |-> "raise", raises |-> "ClientError", text |-> None]
    ELSE IF ~resp.parsable
    THEN [kind |-> "raise", raises |-> "JSONDecodeError", text |-> None]
    ELSE IF StartsWith(resp.request, ERROR_PREFIX) \/ resp.status # 1
    THEN [kind |-> "raise", raises |-> "SolveCaptchaException", text |-> None]
    ELSE IF resp.request = CAPCHA_NOT_READY
    THEN [kind |-> "continue", raises |-> "", text |-> None]
    ELSE [kind |-> "return", raises |-> "", text |-> Upper(resp.request)]

\* a variant that returns the text as the service sent it
PollOutcomeNoUpper(resp) ==
    IF resp.transport = "error"
    THEN [kind |-> "raise", raises |-> "ClientError", text |-> None]
    ELSE IF ~resp.parsable
    THEN [kind |-> "raise", raises |-> "JSONDecodeError", text |-> None]
    ELSE IF resp.request = CAPCHA_NOT_READY
    THEN [kind |-> "continue", raises |-> "", text |-> None]
    ELSE IF StartsWith(resp.request, ERROR_PREFIX) \/ resp.status # 1
    THEN [kind |-> "raise", raises |-> "SolveCaptchaException", text |-> None]
    ELSE [kind |-> "return", raises |-> "", text |-> resp.request]

\* a variant that looks only at the ERROR prefix, never at the status
PollOutcomeIgnoresStatus(resp) ==
    IF resp.transport = "error"
    THEN [kind |-> "raise", raises |-> "ClientError", text |-> None]
    ELSE IF ~resp.parsable
    THEN [kind |-> "raise", raises |-> "JSONDecodeError", text |-> None]
    ELSE IF resp.request = CAPCHA_NOT_READY
    THEN [kind |-> "continue", raises |-> "", text |-> None]
    ELSE IF StartsWith(resp.request, ERROR_PREFIX)
    THEN [kind |-> "raise", raises |-> "SolveCaptchaException", text |-> None]
    ELSE [kind |-> "return", raises |-> "", text |-> Upper(resp.request)]

\* one iteration of CaptchaSolver._wait_for_captcha_output
PollOutcome(resp) ==
    IF resp.transport = "error"
    THEN [kind |-> "raise", raises |-> "ClientError", text |-> None]
    ELSE IF ~resp.parsable
    THEN [kind |-> "raise", raises |-> "JSONDecodeError", text |-> None]
    ELSE IF resp.request = CAPCHA_NOT_READY
    THEN [kind |-> "continue", raises |-> "", text |-> None]
    ELSE IF StartsWith(resp.request, ERROR_PREFIX) \/ resp.status # 1
    THEN [kind |-> "raise", raises |-> "SolveCaptchaException", text |-> None]
    ELSE [kind |-> "return", raises |-> "", text |-> Upper(resp.request)]

\* a variant whose handler never re-raises
GiveUpNever(bad_captcha_attempts) == FALSE

\* `if bad_captcha_attempts > 2: raise`
GiveUp(bad_captcha_attempts) == bad_captcha_attempts > BadAttemptsThreshold

\* a variant whose result-message lookup treats an absent element like a
\* rejected captcha
EvaluateResultAbsentRetries(site) ==
    IF ~site.present
    THEN [result_text |-> UNKNOWN_STATUS, rejected |-> TRUE]
    ELSE [result_text |-> Strip(site.text),
          rejected |-> Strip(site.text) = WRONG_CAPTCHA_ERROR_MESSAGE]

\* the result-message lookup of solve_eikamet_captcha
EvaluateResult(site) ==
    IF ~site.present
    THEN [result_text |-> UNKNOWN_STATUS, rejected |-> FALSE]
    ELSE [result_text |-> Strip(site.text),
          rejected |-> Strip(site.text) = WRONG_CAPTCHA_ERROR_MESSAGE]

\* a variant that loops on a rejection without awaiting report_bad
AfterEvaluateNoReport(rejected) ==
    IF rejected THEN "capture" ELSE "report_good"

\* where EVALUATE goes: `await report_bad(); continue` on a rejection, else
\* `await report_good(); return`
AfterEvaluate(rejected) ==
    IF rejected THEN "report_bad" ELSE "report_good"

\* report_good / report_bad: the transport error of session.get is not caught
\* (neither there nor by the caller); any HTTP status is returned and ignored
ReportOutcome(captcha_key, transport_ok) ==
    IF captcha_key = None THEN "AssertionError"
    ELSE IF ~transport_ok THEN "ClientError"
    ELSE ""

\* a variant without the context manager: nothing quits the driver
WithExitLeak(session) == session

\* leaving `with selenium.webdriver.Chrome(...) as driver:` quits the driver
WithExit(session) == "closed"

(***************************************************************************)
(* State.  Everything is per request: handle_request and the functions it  *)
(* calls keep their state in locals and in the objects they create.        *)
(***************************************************************************)
VARIABLES
    inbound,               \* the requests the hosting runtime delivers
    pc,                    \* where each request's coroutine stands
    error,                 \* the exception that left handle_request, or ""
    failed_at,             \* the step that raised it
    missing,               \* the last element find_element did not find, or ""
    driver,                \* browser session: "none", "open", "closed"
    bad_captcha_attempts,  \* solve_eikamet_captcha's counter
    captcha_image_base64,  \* CaptchaSolver.captcha_image_base64
    captcha_key,           \* CaptchaSolver.captcha_key
    captcha_response,      \* the answer of in.php read by the solver
    captcha_output_response, \* the last poll payload read by the solver
    ikamet_captcha_text,   \* the text solve_captcha returned
    captcha_field,         \* content of the page's captcha input field
    full_screenshot,       \* the body screenshot of the current attempt
    result_value_element,  \* the raw text of span.noty_text, None if absent
    result_text,           \* the text EVALUATE settled on
    ikamet_status,         \* handle_request's locals: what the
    screenshot,            \*   orchestrator returned
    submissions,           \* POSTs to in.php made in this run
    polls,                 \* GETs of the current solver's result
    refresh_clicks,        \* clicks on the captcha-refresh control
    good_solves,           \* solve_captcha calls that returned a text
    reports,               \* feedback calls made: <<[action, id]>>
    tg,                    \* messaging-sink calls made: <<[method, payload]>>
    response               \* the HTTP response body, or None

ctl == <<pc, error, failed_at, missing, driver>>
solver == <<captcha_image_base64, captcha_key, captcha_response,
           captcha_output_response, polls>>
page == <<captcha_field, full_screenshot, result_value_element, result_text>>
returned == <<ikamet_status, screenshot>>
counts == <<submissions, refresh_clicks, good_solves>>
vars == <<inbound, pc, error, failed_at, missing, driver, bad_captcha_attempts,
          captcha_image_base64, captcha_key, captcha_response,
          captcha_output_response, ikamet_captcha_text, captcha_field,
          full_screenshot, result_value_element, result_text,
          ikamet_status, screenshot,
          submissions, polls, refresh_clicks, good_solves, reports, tg, response>>

Set(f, r, v) == [f EXCEPT ![r] = v]

\* Two requests are in flight
Concurrent == Cardinality(inbound) > 1

\* What the outside world answers at one await or lookup: anything it can
\* when a single request runs; while two requests interleave, the answers
\* in `nominal` (no transport failure, no missing element, no "not
\* ready", one text).
Answers(all, nominal) == IF Concurrent THEN nominal ELSE all

\* the nominal answers of in.php, res.php and the page
NominalSubmitResponses(n) ==
    {resp \in SubmitResponses(n) :
        resp.transport = "ok" /\ resp.http_ok /\ resp.parsable}
NominalPollResponses ==
    {resp \in PollResponses :
        /\ resp.transport = "ok"
        /\ resp.parsable
        /\ resp.status = 1
        /\ resp.request \in {ERROR_CAPTCHA_UNSOLVABLE, <<"a","b","1","2">>}}
NominalSiteResults ==
    {site \in SiteResults :
        site.present /\ site.text \in {WRONG_CAPTCHA_ERROR_MESSAGE, APPROVED}}

\* how often the site may reject a captcha in one run
RejectionBound == IF Concurrent THEN MaxRejectionsConc ELSE MaxRejections

InitCommon ==
    /\ pc = [r \in Requests |-> "idle"]
    /\ error = [r \in Requests |-> ""]
    /\ failed_at = [r \in Requests |-> ""]
    /\ missing = [r \in Requests |-> ""]
    /\ driver = [r \in Requests |-> "none"]
    /\ bad_captcha_attempts = [r \in Requests |-> 0]
    /\ captcha_image_base64 = [r \in Requests |-> None]
    /\ captcha_key = [r \in Requests |-> None]
    /\ captcha_response = [r \in Requests |-> NoResponse]
    /\ captcha_output_response = [r \in Requests |-> NoResponse]
    /\ ikamet_captcha_text = [r \in Requests |-> None]
    /\ captcha_field = [r \in Requests |-> <<>>]
    /\ full_screenshot = [r \in Requests |-> None]
    /\ result_value_element = [r \in Requests |-> None]
    /\ result_text = [r \in Requests |-> None]
    /\ ikamet_status = [r \in Requests |-> None]
    /\ screenshot = [r \in Requests |-> None]
    /\ submissions = [r \in Requests |-> 0]
    /\ polls = [r \in Requests |-> 0]
    /\ refresh_clicks = [r \in Requests |-> 0]
    /\ good_solves = [r \in Requests |-> 0]
    /\ reports = [r \in Requests |-> <<>>]
    /\ tg = [r \in Requests |-> <<>>]
    /\ response = [r \in Requests |-> None]

\* one request at a time
Init == inbound = {"r1"} /\ InitCommon

\* two requests arrive and are handled concurrently
InitConc == inbound = Requests /\ InitCommon

(***************************************************************************)
(* Control transfer.                                                       *)
(***************************************************************************)
Goto(r, next) ==
    /\ pc' = Set(pc, r, next)
    /\ UNCHANGED <<error, failed_at, missing, driver>>

\* a variant in which handle_request swallows the error and carries on with
\* the notification
PropagateSwallowed(r, exception) ==
    /\ pc' = Set(pc, r, "send_message")
    /\ error' = Set(error, r, exception)
    /\ failed_at' = Set(failed_at, r, pc[r])
    /\ UNCHANGED <<missing, driver>>

\* An exception that nothing catches unwinds through get_ikamet_status and
\* the `with` block of handle_request, whose exit quits the driver; sanic
\* answers with an error, not with sanic.response.text.
Propagate(r, exception) ==
    /\ pc' = Set(pc, r, "failed")
    /\ error' = Set(error, r, exception)
    /\ failed_at' = Set(failed_at, r, pc[r])
    /\ driver' = Set(driver, r, WithExit(driver[r]))
    /\ UNCHANGED missing

\* driver.find_element finds nothing: NoSuchElementException, which no
\* handler of the call chain catches (the one around the result-message
\* lookup aside)
NotFound(r, element) ==
    /\ pc' = Set(pc, r, "failed")
    /\ error' = Set(error, r, "NoSuchElementException")
    /\ failed_at' = Set(failed_at, r, pc[r])
    /\ driver' = Set(driver, r, WithExit(driver[r]))
    /\ missing' = Set(missing, r, element)

\* number of report_bad calls made so far
Rejections(r) == Len(SelectSeq(reports[r], LAMBDA e : e.action = "reportbad"))

(***************************************************************************)
(* handle_request, up to the orchestrator.                                 *)
(***************************************************************************)
\* handle_request: Chrome(options) is entered
Receive(r) ==
    /\ r \in inbound
    /\ pc[r] = "idle"
    /\ pc' = Set(pc, r, "prefill")
    /\ driver' = Set(driver, r, "open")
    /\ UNCHANGED <<inbound, error, failed_at, missing, bad_captcha_attempts,
                   solver, ikamet_captcha_text, page, returned, counts, reports,
                   tg, response>>

\* get_ikamet_status: load the page, fill the three fields, enter
\* solve_eikamet_captcha (bad_captcha_attempts = 0)
GetIkametStatus(r) ==
    /\ pc[r] = "prefill"
    /\ \/ /\ Goto(r, "capture")
          /\ bad_captcha_attempts' = Set(bad_captcha_attempts, r, 0)
       \/ /\ \E element \in Answers({APPLICATION_FIELD_ID, EMAIL_FIELD_ID,
                                      PASSPORT_FIELD_ID}, {}) :
                NotFound(r, element)
          /\ UNCHANGED bad_captcha_attempts
    /\ UNCHANGED <<inbound, solver, ikamet_captcha_text, page, returned,
                   counts, reports, tg, response>>

(***************************************************************************)
(* solve_eikamet_captcha.                                                  *)
(***************************************************************************)
\* CAPTURE: screenshot the captcha image, build a fresh CaptchaSolver
Capture(r) ==
    /\ pc[r] = "capture"
    /\ \E found \in Answers(BOOLEAN, {TRUE}) :
          IF found
          THEN /\ Goto(r, "submit")
               /\ captcha_image_base64' =
                      Set(captcha_image_base64, r, CaptchaImage(submissions[r] + 1))
               /\ captcha_key' = Set(captcha_key, r, None)
               /\ captcha_response' = Set(captcha_response, r, NoResponse)
               /\ captcha_output_response' =
                      Set(captcha_output_response, r, NoResponse)
               /\ polls' = Set(polls, r, 0)
          ELSE /\ NotFound(r, CAPTCHA_IMAGE_FIELD_ID)
               /\ UNCHANGED solver
    /\ UNCHANGED <<inbound, bad_captcha_attempts, ikamet_captcha_text, page,
                   returned, counts, reports, tg, response>>

\* a variant of the handler that clicks the refresh control before it tests
\* the counter
OnSolveCaptchaExceptionClickFirst(r) ==
    \E found \in Answers(BOOLEAN, {TRUE}) :
       IF ~found
       THEN /\ NotFound(r, REFRESH_CAPTCHA_BUTTON_TITLE)
            /\ UNCHANGED refresh_clicks
       ELSE /\ refresh_clicks' = Set(refresh_clicks, r, refresh_clicks[r] + 1)
            /\ IF GiveUp(bad_captcha_attempts[r])
               THEN Propagate(r, "SolveCaptchaException")
               ELSE Goto(r, "refresh_wait")

\* the `except SolveCaptchaException` handler, up to its sleep: re-raise when
\* the counter is over the threshold, else click the refresh control
OnSolveCaptchaException(r) ==
    IF GiveUp(bad_captcha_attempts[r])
    THEN /\ Propagate(r, "SolveCaptchaException")
         /\ UNCHANGED refresh_clicks
    ELSE \E found \in Answers(BOOLEAN, {TRUE}) :
            IF found
            THEN /\ Goto(r, "refresh_wait")
                 /\ refresh_clicks' = Set(refresh_clicks, r, refresh_clicks[r] + 1)
            ELSE /\ NotFound(r, REFRESH_CAPTCHA_BUTTON_TITLE)
                 /\ UNCHANGED refresh_clicks

\* CaptchaSolver.solve_captcha: the POST to in.php and what it answers
SolveCaptcha(r) ==
    /\ pc[r] = "submit"
    /\ submissions[r] < MaxSubmissions
    /\ submissions' = Set(submissions, r, submissions[r] + 1)
    /\ \E resp \in Answers(SubmitResponses(IdBase(r) + submissions[r] + 1),
                           NominalSubmitResponses(IdBase(r) + submissions[r] + 1)) :
          LET o == SubmitOutcome(resp) IN
          /\ captcha_response' = IF resp.transport = "ok"
                                 THEN Set(captcha_response, r, resp)
                                 ELSE captcha_response
          /\ CASE o.raises = "" ->
                     /\ Goto(r, "poll")
                     /\ captcha_key' = Set(captcha_key, r, o.key)
                     /\ UNCHANGED refresh_clicks
               [] o.raises = "SolveCaptchaException" ->
                     /\ OnSolveCaptchaException(r)
                     /\ UNCHANGED captcha_key
               [] OTHER ->
                     /\ Propagate(r, o.raises)
                     /\ UNCHANGED <<captcha_key, refresh_clicks>>
    /\ UNCHANGED <<inbound, bad_captcha_attempts, captcha_image_base64,
                   captcha_output_response, polls, ikamet_captcha_text, page,
                   returned, good_solves, reports, tg, response>>

\* CaptchaSolver._wait_for_captcha_output: one poll of res.php
WaitForCaptchaOutput(r) ==
    /\ pc[r] = "poll"
    /\ \E resp \in Answers(PollResponses, NominalPollResponses) :
          LET o == PollOutcome(resp) IN
          /\ o.kind = "continue" => polls[r] < MaxPolls
          /\ polls' = Set(polls, r, polls[r] + 1)
          /\ captcha_output_response' =
                 IF resp.transport = "ok"
                 THEN Set(captcha_output_response, r, resp)
                 ELSE captcha_output_response
          /\ CASE o.kind = "continue" ->
                     /\ Goto(r, "poll")
                     /\ UNCHANGED <<ikamet_captcha_text, good_solves, refresh_clicks>>
               [] o.kind = "return" ->
                     /\ Goto(r, "fill")
                     /\ ikamet_captcha_text' = Set(ikamet_captcha_text, r, o.text)
                     /\ good_solves' = Set(good_solves, r, good_solves[r] + 1)
                     /\ UNCHANGED refresh_clicks
               [] o.kind = "raise" /\ o.raises = "SolveCaptchaException" ->
                     /\ OnSolveCaptchaException(r)
                     /\ UNCHANGED <<ikamet_captcha_text, good_solves>>
               [] OTHER ->
                     /\ Propagate(r, o.raises)
                     /\ UNCHANGED <<ikamet_captcha_text, good_solves, refresh_clicks>>
    /\ UNCHANGED <<inbound, bad_captcha_attempts, captcha_image_base64, captcha_key,
                   captcha_response, page, returned, submissions, reports, tg,
                   response>>

\* a variant that starts the count again at every solving error
CountBadAttemptRestart(bad_attempts) == 1

\* `bad_captcha_attempts += 1`
CountBadAttempt(bad_attempts) == bad_attempts + 1

\* a variant that keeps the count in one module-level counter
RefreshWaitSharedCounter(r) ==
    /\ pc[r] = "refresh_wait"
    /\ Goto(r, "capture")
    /\ bad_captcha_attempts' =
           [q \in Requests |-> CountBadAttempt(bad_captcha_attempts[r])]
    /\ UNCHANGED <<inbound, solver, ikamet_captcha_text, page, returned, counts,
                   reports, tg, response>>

\* the rest of the handler: after the sleep, count the bad attempt and loop
RefreshWait(r) ==
    /\ pc[r] = "refresh_wait"
    /\ Goto(r, "capture")
    /\ bad_captcha_attempts' = Set(bad_captcha_attempts, r,
                                   CountBadAttempt(bad_captcha_attempts[r]))
    /\ UNCHANGED <<inbound, solver, ikamet_captcha_text, page, returned, counts,
                   reports, tg, response>>

\* SUBMIT_TO_SITE: fill_element(CAPTCHA_FIELD_ID, text), click the login button
SubmitToSite(r) ==
    /\ pc[r] = "fill"
    /\ \E absent \in Answers({"", CAPTCHA_FIELD_ID, BUTTON_CSS_SELECTOR}, {""}) :
          /\ captcha_field' = IF absent = CAPTCHA_FIELD_ID THEN captcha_field
                              ELSE Set(captcha_field, r, ikamet_captcha_text[r])
          /\ IF absent = ""
             THEN Goto(r, "evaluate")
             ELSE NotFound(r, absent)
    /\ UNCHANGED <<inbound, bad_captcha_attempts, solver, ikamet_captcha_text,
                   full_screenshot, result_value_element, result_text, returned,
                   counts, reports, tg, response>>

\* EVALUATE: body screenshot, then the result-message lookup
Evaluate(r) ==
    /\ pc[r] = "evaluate"
    /\ \/ /\ \E element \in Answers({BODY_TAG}, {}) :
                NotFound(r, element)
          /\ UNCHANGED <<full_screenshot, result_value_element, result_text>>
       \/ \E site \in Answers(SiteResults, NominalSiteResults) :
             LET e == EvaluateResult(site) IN
             /\ e.rejected => Rejections(r) < RejectionBound
             /\ full_screenshot' = Set(full_screenshot, r, PageScreenshot(submissions[r]))
             /\ result_value_element' =
                    Set(result_value_element, r,
                        IF site.present THEN site.text ELSE None)
             /\ result_text' = Set(result_text, r, e.result_text)
             /\ pc' = Set(pc, r, AfterEvaluate(e.rejected))
             /\ missing' = IF site.present THEN missing
                           ELSE Set(missing, r, RESULT_ELEMENT_CSS_SELECTOR)
             /\ UNCHANGED <<error, failed_at, driver>>
    /\ UNCHANGED <<inbound, bad_captcha_attempts, solver, ikamet_captcha_text,
                   captcha_field, returned, counts, reports, tg, response>>

\* `await captcha_solver.report_bad(); continue`
ReportBad(r) ==
    /\ pc[r] = "report_bad"
    /\ \E transport_ok \in Answers(BOOLEAN, {TRUE}) :
          LET o == ReportOutcome(captcha_key[r], transport_ok) IN
          /\ reports' = IF o = "AssertionError" THEN reports
                        ELSE Set(reports, r, Append(reports[r],
                                 [action |-> "reportbad", id |-> captcha_key[r]]))
          /\ IF o = "" THEN Goto(r, "capture") ELSE Propagate(r, o)
    /\ UNCHANGED <<inbound, bad_captcha_attempts, solver, ikamet_captcha_text,
                   page, returned, counts, tg, response>>

\* `await captcha_solver.report_good(); return result_text, full_screenshot`
ReportGood(r) ==
    /\ pc[r] = "report_good"
    /\ \E transport_ok \in Answers(BOOLEAN, {TRUE}) :
          LET o == ReportOutcome(captcha_key[r], transport_ok) IN
          /\ reports' = IF o = "AssertionError" THEN reports
                        ELSE Set(reports, r, Append(reports[r],
                                 [action |-> "reportgood", id |-> captcha_key[r]]))
          /\ IF o = ""
             THEN /\ Goto(r, "send_message")
                  /\ ikamet_status' = Set(ikamet_status, r, result_text[r])
                  /\ screenshot' = Set(screenshot, r, full_screenshot[r])
             ELSE /\ Propagate(r, o)
                  /\ UNCHANGED returned
    /\ UNCHANGED <<inbound, bad_captcha_attempts, solver, ikamet_captcha_text,
                   page, counts, tg, response>>

(***************************************************************************)
(* handle_request, after the orchestrator.                                 *)
(***************************************************************************)
\* send_message_to_tg: bot.send_message
SendMessage(r) ==
    /\ pc[r] = "send_message"
    /\ \E sent \in Answers(BOOLEAN, {TRUE}) :
          IF sent
          THEN /\ Goto(r, "send_photo")
               /\ tg' = Set(tg, r, Append(tg[r],
                         [method |-> "send_message", payload |-> ikamet_status[r]]))
          ELSE /\ Propagate(r, "TelegramError")
               /\ UNCHANGED tg
    /\ UNCHANGED <<inbound, bad_captcha_attempts, solver, ikamet_captcha_text,
                   page, returned, counts, reports, response>>

\* send_message_to_tg: bot.send_photo
SendPhoto(r) ==
    /\ pc[r] = "send_photo"
    /\ \E sent \in Answers(BOOLEAN, {TRUE}) :
          IF sent
          THEN /\ Goto(r, "close")
               /\ tg' = Set(tg, r, Append(tg[r],
                         [method |-> "send_photo", payload |-> screenshot[r]]))
          ELSE /\ Propagate(r, "TelegramError")
               /\ UNCHANGED tg
    /\ UNCHANGED <<inbound, bad_captcha_attempts, solver, ikamet_captcha_text,
                   page, returned, counts, reports, response>>

\* the `with` block is left normally
CloseSession(r) ==
    /\ pc[r] = "close"
    /\ pc' = Set(pc, r, "respond")
    /\ driver' = Set(driver, r, WithExit(driver[r]))
    /\ UNCHANGED <<inbound, error, failed_at, missing, bad_captcha_attempts,
                   solver, ikamet_captcha_text, page, returned, counts, reports,
                   tg, response>>

\* a variant that answers with the raw text of the result element
RespondRaw(r) ==
    /\ pc[r] = "respond"
    /\ Goto(r, "responded")
    /\ response' = Set(response, r, result_value_element[r])
    /\ UNCHANGED <<inbound, bad_captcha_attempts, solver, ikamet_captcha_text,
                   page, returned, counts, reports, tg>>

\* `return sanic.response.text(ikamet_status)`
Respond(r) ==
    /\ pc[r] = "respond"
    /\ Goto(r, "responded")
    /\ response' = Set(response, r, ikamet_status[r])
    /\ UNCHANGED <<inbound, bad_captcha_attempts, solver, ikamet_captcha_text,
                   page, returned, counts, reports, tg>>

RequestStep(r) ==
       \/ Receive(r)
       \/ GetIkametStatus(r)
       \/ Capture(r)
       \/ SolveCaptcha(r)
       \/ WaitForCaptchaOutput(r)
       \/ RefreshWait(r)
       \/ SubmitToSite(r)
       \/ Evaluate(r)
       \/ ReportBad(r)
       \/ ReportGood(r)
       \/ SendMessage(r)
       \/ SendPhoto(r)
       \/ CloseSession(r)
       \/ Respond(r)

Next == \E r \in Requests : RequestStep(r)

Spec == Init /\ [][Next]_vars

\* two invocations of handle_request interleaving at their awaits
SpecConc == InitConc /\ [][Next]_vars

\* the event loop runs every coroutine that is ready; the caps MaxPolls and
\* MaxRejections say that the service and the site answer in the end
FairSpec == Spec /\ \A r \in Requests : WF_vars(RequestStep(r))

(***************************************************************************)
(* Properties.                                                             *)
(***************************************************************************)
\* the orchestrator re-raised the solving error: FATAL
Fatal(r) == pc[r] = "failed" /\ error[r] = "SolveCaptchaException"

\* C1: in a run where every solve attempt fails with SolveCaptchaException,
\* FATAL is reached after exactly 3 submissions to the solving service and
\* exactly 2 refresh-clicks (the third consecutive failure is propagated).
C1_ThreeAttemptsThenFatal ==
    \A r \in Requests :
       Fatal(r) /\ good_solves[r] = 0
          => submissions[r] = 3 /\ refresh_clicks[r] = 2

\* C2: whenever the text read in EVALUATE equals the wrong-captcha message,
\* the orchestrator leaves the counter unchanged, calls report_bad and goes
\* back to CAPTURE; a rejection never ends in a propagated error.
C2_RejectionRetriesFromCapture ==
    [][\A r \in Requests :
          pc[r] = "report_bad" /\ result_text[r] = WRONG_CAPTCHA_ERROR_MESSAGE
             => /\ pc'[r] = "capture"
                /\ error'[r] = ""
                /\ bad_captcha_attempts'[r] = bad_captcha_attempts[r]
                /\ reports'[r] = Append(reports[r],
                       [action |-> "reportbad", id |-> captcha_key[r]])]_vars

\* C3: if the result-message element is absent after the answer was
\* submitted, the run finishes in that iteration: report_good is called,
\* ("Unknown status", the screenshot of that attempt) is returned, and no
\* report_bad and no further capture happen.
C3_AbsentElementFinishes ==
    [][\A r \in Requests :
          pc[r] = "report_good" /\ result_value_element[r] = None
             => /\ pc'[r] = "send_message"
                /\ ikamet_status'[r] = UNKNOWN_STATUS
                /\ screenshot'[r] = PageScreenshot(submissions[r])
                /\ reports'[r] = Append(reports[r],
                       [action |-> "reportgood", id |-> captcha_key[r]])
                /\ submissions'[r] = submissions[r]]_vars

\* the service's answer to a poll says "not ready" / is a final answer
\* (a solved text, an error payload or a body that is no JSON)
NotReadyResponse(resp) ==
    resp.transport = "ok" /\ resp.parsable /\ resp.request = CAPCHA_NOT_READY
TerminalResponse(resp) == resp.transport = "ok" /\ ~NotReadyResponse(resp)

\* C4: _wait_for_captcha_output keeps polling while the answers are "not
\* ready": at every poll no final answer has been seen before, a "not ready"
\* answer leaves the solver polling with no text returned and nothing raised,
\* and the solver stops polling exactly when the answer is final.
C4_PollsUntilTerminal ==
    [][\A r \in Requests :
          pc[r] = "poll" /\ polls'[r] = polls[r] + 1 /\ error'[r] # "ClientError"
             => /\ ~TerminalResponse(captcha_output_response[r])
                /\ pc'[r] # "poll" <=> TerminalResponse(captcha_output_response'[r])
                /\ pc'[r] = "poll" =>
                      /\ ikamet_captcha_text'[r] = ikamet_captcha_text[r]
                      /\ good_solves'[r] = good_solves[r]
                      /\ error'[r] = ""]_vars

\* C4 witness: a text is returned by the third poll, after MaxPolls "not
\* ready" answers
C4_Witness ==
    \E r \in Requests :
       /\ pc[r] = "fill"
       /\ polls[r] >= 3
       /\ TerminalResponse(captcha_output_response[r])

\* C5: a transport failure of report_good or report_bad is suppressed: no
\* run is aborted at a feedback call (the accepted path still returns, the
\* rejected path still retries from CAPTURE).
C5_FeedbackFailureSuppressed ==
    \A r \in Requests :
       ~(pc[r] = "failed" /\ failed_at[r] \in {"report_good", "report_bad"})

\* in.php answered, and the answer is one of the three rejected kinds
BadSubmission(resp) ==
    /\ resp.transport = "ok"
    /\ ~resp.http_ok \/ ~resp.parsable \/ resp.status # 1

\* C6: a non-success HTTP status, an unparsable body and a payload status
\* other than 1 each make the submission fail with SolveCaptchaException,
\* the error the orchestrator counts and retries (refresh, or re-raise over
\* the threshold); no task id is stored and no poll is issued.
C6_SubmissionFailsAsSolveError ==
    [][\A r \in Requests :
          /\ pc[r] = "submit"
          /\ submissions'[r] = submissions[r] + 1
          /\ BadSubmission(captcha_response'[r])
          => /\ \/ pc'[r] = "refresh_wait"
                \/ error'[r] \in {"SolveCaptchaException", "NoSuchElementException"}
             /\ captcha_key'[r] = None
             /\ polls'[r] = 0]_vars

\* C7: a request that has ended, with a response or with an error, has its
\* browser session closed; the response is only produced after the close.
C7_SessionClosedOnEveryExit ==
    \A r \in Requests :
       /\ pc[r] \in {"respond", "responded", "failed"} => driver[r] = "closed"
       /\ response[r] # None => driver[r] = "closed"

\* C7 witness: the messaging sink failed on the photo, after the text was
\* sent, and the session is closed
C7_Witness ==
    \E r \in Requests :
       /\ pc[r] = "failed"
       /\ error[r] = "TelegramError"
       /\ failed_at[r] = "send_photo"
       /\ driver[r] = "closed"

\* C8: once an error has surfaced out of get_ikamet_status, the request has
\* made no messaging-sink call and returns no response.
C8_OrchestratorErrorAbortsRequest ==
    \A r \in Requests :
       error[r] \notin {"", "TelegramError"}
          => tg[r] = <<>> /\ response[r] = None

\* C8 witness: the orchestrator re-raised the solving error
C8_Witness ==
    \E r \in Requests : Fatal(r) /\ tg[r] = <<>> /\ response[r] = None

\* C9: when the result-message element is present with a text other than the
\* wrong-captcha message, report_good is called once and the run ends in DONE
\* with that text and the screenshot of the same attempt; a run whose first
\* solve and first site answer succeed makes one submission and no refresh.
C9_AcceptedAttemptReturns ==
    /\ [][\A r \in Requests :
             pc[r] = "report_good" /\ result_value_element[r] # None
                => /\ pc'[r] = "send_message"
                   /\ ikamet_status'[r] = Strip(result_value_element[r])
                   /\ screenshot'[r] = PageScreenshot(submissions[r])
                   /\ reports'[r] = Append(reports[r],
                          [action |-> "reportgood", id |-> captcha_key[r]])]_vars
    /\ [](\A r \in Requests :
             pc[r] = "send_message" /\ bad_captcha_attempts[r] = 0 /\ Rejections(r) = 0
                => submissions[r] = 1 /\ refresh_clicks[r] = 0)

\* C10: the failed solve attempts of a run are bounded by a constant (the
\* counter never passes threshold + 1, so at most threshold + 2 submissions
\* are without a returned text), and a run that gets no text from the
\* service ends by propagating a failure.
C10_BoundedSolveFailures ==
    /\ [](\A r \in Requests :
             /\ bad_captcha_attempts[r] <= BadAttemptsThreshold + 1
             /\ submissions[r] - good_solves[r] <= BadAttemptsThreshold + 2)
    /\ \A r \in Requests :
          (pc[r] = "capture" /\ good_solves[r] = 0)
             ~> (good_solves[r] > 0 \/ pc[r] = "failed")

\* C10 witness: FATAL after as many failed solves as the threshold allows
C10_Witness ==
    \E r \in Requests :
       /\ Fatal(r)
       /\ good_solves[r] = 0
       /\ bad_captcha_attempts[r] = BadAttemptsThreshold + 1
       /\ submissions[r] = BadAttemptsThreshold + 2

\* attempts of the run that were submitted and are neither failed-and-counted
\* nor reported to the service
OpenAttempts(r) ==
    submissions[r] - bad_captcha_attempts[r] - Len(reports[r])

\* C11: a run has at most one captcha attempt in progress, and it captures
\* and submits a new image only when every earlier attempt has failed (and
\* was counted) or was resolved, entered, evaluated and reported.
C11_OneAttemptAtATime ==
    \A r \in Requests :
       /\ OpenAttempts(r) \in {0, 1}
       /\ pc[r] \in {"capture", "submit"} => OpenAttempts(r) = 0
       /\ OpenAttempts(r) = 1 =>
             pc[r] \in {"poll", "refresh_wait", "fill", "evaluate",
                        "report_bad", "report_good", "failed"}
       /\ pc[r] \in {"poll", "fill", "evaluate", "report_bad", "report_good"}
             => captcha_key[r] = TaskId(submissions[r])

\* C11 witness: a third image is about to be submitted after one failed and
\* one rejected attempt
C11_Witness ==
    \E r \in Requests :
       /\ pc[r] = "submit"
       /\ submissions[r] = 2
       /\ bad_captcha_attempts[r] = 1
       /\ Rejections(r) = 1

\* C13: on a successful run the text message is sent first, then the photo,
\* then the session is closed, then the response is returned; the response
\* body is the text sent to the sink and the text the orchestrator returned.
C13_NotifyCloseRespond ==
    \A r \in Requests :
       /\ Len(tg[r]) <= 2
       /\ Len(tg[r]) >= 1 =>
             tg[r][1] = [method |-> "send_message", payload |-> ikamet_status[r]]
       /\ Len(tg[r]) = 2 =>
             tg[r][2] = [method |-> "send_photo", payload |-> screenshot[r]]
       /\ driver[r] = "closed" /\ error[r] = "" => Len(tg[r]) = 2
       /\ pc[r] = "responded" => response[r] = ikamet_status[r]
       /\ pc[r] = "responded" \/ response[r] # None =>
             /\ driver[r] = "closed"
             /\ Len(tg[r]) = 2
             /\ response[r] = tg[r][1].payload
             /\ response[r] = result_text[r]
             /\ screenshot[r] = full_screenshot[r]

\* C13 witness: the request was answered with the sentinel text
C13_Witness ==
    \E r \in Requests :
       /\ pc[r] = "responded"
       /\ response[r] = UNKNOWN_STATUS
       /\ Len(tg[r]) = 2
       /\ driver[r] = "closed"

\* the string holds a lower-case letter
HasLowerCase(s) ==
    \E i \in DOMAIN s : \E j \in DOMAIN LowerCase : s[i] = LowerCase[j]

\* C14: the text entered into the captcha field is the upper-case form of
\* the text the service returned for that attempt, and the field never holds
\* a lower-case character.
C14_EnteredTextIsUpperCase ==
    \A r \in Requests :
       /\ ~HasLowerCase(captcha_field[r])
       /\ pc[r] \in {"evaluate", "report_bad", "report_good"} =>
             /\ captcha_field[r] = Upper(captcha_output_response[r].request)
             /\ captcha_field[r] = ikamet_captcha_text[r]

\* C14 witness: the service answered in lower case and the field holds the
\* upper-case text
C14_Witness ==
    \E r \in Requests :
       /\ pc[r] = "evaluate"
       /\ captcha_output_response[r].request = <<"a","b","1","2">>
       /\ captcha_field[r] = <<"A","B","1","2">>

\* solve_captcha calls of the run that raised SolveCaptchaException, in a
\* state with no solve in progress
FailedSolves(r) == submissions[r] - good_solves[r]

\* C15: FATAL is raised straight from the failing solve, with no refresh-
\* click, no increment and nothing after it; every other solving error gets
\* exactly one refresh-click and one increment before the next capture.
C15_FatalIsDirect ==
    /\ [](\A r \in Requests :
             /\ pc[r] = "refresh_wait" =>
                   /\ refresh_clicks[r] = bad_captcha_attempts[r] + 1
                   /\ FailedSolves(r) = refresh_clicks[r]
             /\ pc[r] = "capture" =>
                   /\ refresh_clicks[r] = bad_captcha_attempts[r]
                   /\ FailedSolves(r) = bad_captcha_attempts[r]
             /\ Fatal(r) =>
                   /\ refresh_clicks[r] = bad_captcha_attempts[r]
                   /\ FailedSolves(r) = bad_captcha_attempts[r] + 1)
    /\ [][\A r \in Requests :
             Fatal(r) =>
                /\ pc'[r] = pc[r]
                /\ submissions'[r] = submissions[r]
                /\ refresh_clicks'[r] = refresh_clicks[r]
                /\ bad_captcha_attempts'[r] = bad_captcha_attempts[r]
                /\ captcha_image_base64'[r] = captcha_image_base64[r]]_vars

\* C15 witness: FATAL, one failed solve more than clicks and increments
C15_Witness ==
    \E r \in Requests :
       /\ Fatal(r)
       /\ refresh_clicks[r] = bad_captcha_attempts[r]
       /\ FailedSolves(r) = bad_captcha_attempts[r] + 1
       /\ failed_at[r] = "poll"

\* the elements whose lookup no handler guards
FatalElements ==
    {APPLICATION_FIELD_ID, EMAIL_FIELD_ID, PASSPORT_FIELD_ID,
     CAPTCHA_IMAGE_FIELD_ID, CAPTCHA_FIELD_ID, BUTTON_CSS_SELECTOR, BODY_TAG,
     REFRESH_CAPTCHA_BUTTON_TITLE}

\* C16: a lookup that finds no captcha image, captcha input field, login
\* button, body element or refresh control aborts the run in that very step
\* with NoSuchElementException: no report is sent, no attempt is started, the
\* counter is left alone and the run never moves again (the refresh control
\* is looked up in the step of the solve that failed).  A missing
\* result-message element raises nothing: the attempt is taken as accepted
\* with the text "Unknown status".
C16_AbsentElementFatalButResult ==
    /\ [](\A r \in Requests :
             /\ missing[r] \in FatalElements =>
                   /\ pc[r] = "failed"
                   /\ error[r] = "NoSuchElementException"
                   /\ ikamet_status[r] = None
                   /\ response[r] = None
                   /\ driver[r] = "closed"
             /\ error[r] = "NoSuchElementException" => missing[r] \in FatalElements
             /\ (missing[r] = RESULT_ELEMENT_CSS_SELECTOR /\ pc[r] = "report_good") =>
                   /\ result_value_element[r] = None
                   /\ result_text[r] = UNKNOWN_STATUS
                   /\ error[r] = "")
    /\ [][\A r \in Requests :
             /\ (missing'[r] # missing[r] /\ missing'[r] \in FatalElements) =>
                   /\ pc'[r] = "failed"
                   /\ reports'[r] = reports[r]
                   /\ bad_captcha_attempts'[r] = bad_captcha_attempts[r]
                   /\ missing'[r] # REFRESH_CAPTCHA_BUTTON_TITLE =>
                         /\ submissions'[r] = submissions[r]
                         /\ polls'[r] = polls[r]
                   /\ missing'[r] = REFRESH_CAPTCHA_BUTTON_TITLE =>
                         /\ pc[r] \in {"submit", "poll"}
                         /\ ~GiveUp(bad_captcha_attempts[r])
                         /\ refresh_clicks'[r] = refresh_clicks[r]
             /\ (missing'[r] # missing[r] /\ missing'[r] = RESULT_ELEMENT_CSS_SELECTOR) =>
                   /\ pc[r] = "evaluate"
                   /\ pc'[r] = "report_good"
                   /\ result_text'[r] = UNKNOWN_STATUS
                   /\ error'[r] = ""
             /\ missing[r] \in FatalElements =>
                   /\ pc'[r] = pc[r]
                   /\ missing'[r] = missing[r]
                   /\ reports'[r] = reports[r]]_vars

\* C16 witness: the refresh control is missing while a solving error under
\* the threshold is handled, after an earlier error was retried
C16_Witness ==
    \E r \in Requests :
       /\ missing[r] = REFRESH_CAPTCHA_BUTTON_TITLE
       /\ pc[r] = "failed"
       /\ error[r] = "NoSuchElementException"
       /\ bad_captcha_attempts[r] = 1
       /\ Len(reports[r]) = 1

\* res.php answered with a JSON body that is not "not ready" and carries an
\* ERROR text or a status other than 1
ErrorResponse(resp) ==
    /\ resp.transport = "ok"
    /\ resp.parsable
    /\ resp.request # CAPCHA_NOT_READY
    /\ (StartsWith(resp.request, ERROR_PREFIX) \/ resp.status # 1)

\* the step of r raised SolveCaptchaException into the handler of
\* solve_eikamet_captcha: retried, re-raised, or the refresh control missing
RaisedSolveCaptchaException(r) ==
    \/ pc'[r] = "refresh_wait"
    \/ pc'[r] = "failed" /\ error'[r] = "SolveCaptchaException"
    \/ pc'[r] = "failed" /\ missing'[r] = REFRESH_CAPTCHA_BUTTON_TITLE

\* C17: a poll answered with an ERROR text or a status other than 1 (and not
\* "not ready") raises SolveCaptchaException at that poll: no text is
\* returned and the solver does not poll again; only such an answer raises
\* it; a "not ready" answer with status 0 is no error, the solver polls on.
C17_PollErrorRaisesAtOnce ==
    [][\A r \in Requests :
          pc[r] = "poll" /\ polls'[r] = polls[r] + 1 /\ error'[r] # "ClientError"
             => LET resp == captcha_output_response'[r] IN
                /\ ErrorResponse(resp) <=> RaisedSolveCaptchaException(r)
                /\ ErrorResponse(resp) =>
                      /\ pc'[r] # "poll"
                      /\ pc'[r] # "fill"
                      /\ ikamet_captcha_text'[r] = ikamet_captcha_text[r]
                      /\ good_solves'[r] = good_solves[r]
                /\ (resp.parsable /\ resp.request = CAPCHA_NOT_READY /\ resp.status # 1) =>
                      /\ pc'[r] = "poll"
                      /\ error'[r] = ""
                      /\ refresh_clicks'[r] = refresh_clicks[r]]_vars

\* C17 witness: after a "not ready" answer was polled through, an answer
\* with status 0 and a text without the ERROR prefix raised
C17_Witness ==
    \E r \in Requests :
       /\ pc[r] = "refresh_wait"
       /\ polls[r] >= 2
       /\ captcha_output_response[r].status = 0
       /\ ~StartsWith(captcha_output_response[r].request, ERROR_PREFIX)
       /\ ErrorResponse(captcha_output_response[r])

\* C18: the counter starts at 0 and never goes down; it goes up by exactly
\* one, and only where the handler of a solving error under the threshold
\* counts it; a successful solve, a site rejection and its report leave it
\* alone.  It therefore equals the number of solving errors retried so far,
\* however many successful solves and rejections lie between them, and the
\* run gives up at the same count with or without them.
C18_CounterOnlyGrows ==
    /\ [](\A r \in Requests :
             /\ bad_captcha_attempts[r] \in 0..(BadAttemptsThreshold + 1)
             /\ pc[r] \in {"idle", "prefill"} => bad_captcha_attempts[r] = 0
             /\ pc[r] = "capture" \/ Fatal(r) =>
                   bad_captcha_attempts[r] + (IF Fatal(r) THEN 1 ELSE 0) = FailedSolves(r)
             /\ Fatal(r) => bad_captcha_attempts[r] = BadAttemptsThreshold + 1)
    /\ [][\A r \in Requests :
             /\ bad_captcha_attempts'[r] \in
                   {bad_captcha_attempts[r], bad_captcha_attempts[r] + 1}
             /\ bad_captcha_attempts'[r] # bad_captcha_attempts[r] <=>
                   pc[r] = "refresh_wait" /\ pc'[r] # pc[r]
             /\ good_solves'[r] # good_solves[r] =>
                   bad_captcha_attempts'[r] = bad_captcha_attempts[r]
             /\ pc[r] \in {"evaluate", "report_bad"} =>
                   bad_captcha_attempts'[r] = bad_captcha_attempts[r]]_vars

\* C18 witness: FATAL in a run that also had a successful solve and a site
\* rejection
C18_Witness ==
    \E r \in Requests :
       /\ Fatal(r)
       /\ good_solves[r] >= 1
       /\ Rejections(r) >= 1
       /\ bad_captcha_attempts[r] = BadAttemptsThreshold + 1

\* the solver of the current attempt had its submission accepted and its
\* poll answered with a text
SolvedAttempt(r) ==
    /\ captcha_response[r].transport = "ok"
    /\ captcha_response[r].http_ok
    /\ captcha_response[r].parsable
    /\ captcha_response[r].status = 1
    /\ captcha_key[r] = captcha_response[r].request
    /\ captcha_output_response[r].transport = "ok"
    /\ captcha_output_response[r].parsable
    /\ captcha_output_response[r].status = 1
    /\ captcha_output_response[r].request # CAPCHA_NOT_READY
    /\ ~StartsWith(captcha_output_response[r].request, ERROR_PREFIX)

\* C19: the assertion of report_good and report_bad never fails.  Whenever a
\* report is about to be sent, the solver holds the task id of the current
\* attempt, its submission was accepted, its poll returned a text, and that
\* text is what was typed into the captcha field.  Every report sent
\* carries that id, no id is reported twice, and a step in which a solve
\* fails sends no report.
C19_ReportOnlyForSolvedAttempt ==
    /\ [](\A r \in Requests :
             /\ error[r] # "AssertionError"
             /\ pc[r] \in {"report_bad", "report_good"} =>
                   /\ captcha_key[r] # None
                   /\ captcha_key[r] = TaskId(submissions[r])
                   /\ SolvedAttempt(r)
                   /\ captcha_field[r] = Upper(captcha_output_response[r].request)
             /\ Len(reports[r]) <= good_solves[r]
             /\ \A i \in 1..Len(reports[r]) :
                   /\ \E n \in 1..submissions[r] : reports[r][i].id = TaskId(n)
                   /\ \A j \in 1..Len(reports[r]) :
                         reports[r][i].id = reports[r][j].id => i = j)
    /\ [][\A r \in Requests :
             /\ reports'[r] # reports[r] =>
                   /\ pc[r] \in {"report_bad", "report_good"}
                   /\ Len(reports'[r]) = Len(reports[r]) + 1
                   /\ reports'[r][Len(reports'[r])].id = captcha_key[r]
                   /\ SubSeq(reports'[r], 1, Len(reports[r])) = reports[r]
             /\ (pc[r] \in {"submit", "poll"} /\ RaisedSolveCaptchaException(r)) =>
                   reports'[r] = reports[r]]_vars

\* C19 witness: the second report of a run, sent for the third attempt and
\* carrying its task id; one of the two earlier attempts failed its solve
C19_Witness ==
    \E r \in Requests :
       /\ Len(reports[r]) = 2
       /\ submissions[r] = 3
       /\ good_solves[r] = 2
       /\ reports[r][2].id = TaskId(3)
       /\ reports[r][2].action = "reportgood"
       /\ pc[r] = "send_message"

\* everything handle_request and its callees hold for request q
Local(q) ==
    <<pc[q], error[q], failed_at[q], missing[q], driver[q],
      bad_captcha_attempts[q], captcha_image_base64[q], captcha_key[q],
      captcha_response[q], captcha_output_response[q], ikamet_captcha_text[q],
      captcha_field[q], full_screenshot[q], result_value_element[q],
      result_text[q], ikamet_status[q], screenshot[q], submissions[q], polls[q],
      refresh_clicks[q], good_solves[q], reports[q], tg[q], response[q]>>

\* C12: with two requests interleaving at their awaits, every step is the
\* step of one request and changes nothing the other one holds (session,
\* counter, solver, page data, reports, response).  Each request has its own
\* session, open exactly while its own run is inside the `with` block; each
\* solver holds an id issued to its own request, never the other's; each
\* request reports only its own ids; and each counter counts the failed
\* solves of its own run, so that a run gives up after the same number of
\* attempts, and answers with its own result, as it does alone.
C12_RequestsShareNothing ==
    /\ [](\A r \in Requests :
             /\ driver[r] = "open" <=>
                   pc[r] \notin {"idle", "failed", "respond", "responded"}
             /\ captcha_key[r] # None =>
                   /\ captcha_key[r] = TaskId(IdBase(r) + submissions[r])
                   /\ \A q \in Requests \ {r} : captcha_key[q] # captcha_key[r]
             /\ \A i \in 1..Len(reports[r]) :
                   \E n \in 1..submissions[r] :
                      reports[r][i].id = TaskId(IdBase(r) + n)
             /\ pc[r] = "capture" =>
                   /\ bad_captcha_attempts[r] = FailedSolves(r)
                   /\ refresh_clicks[r] = FailedSolves(r)
             /\ Fatal(r) =>
                   /\ bad_captcha_attempts[r] = BadAttemptsThreshold + 1
                   /\ FailedSolves(r) = BadAttemptsThreshold + 2
                   /\ refresh_clicks[r] = BadAttemptsThreshold + 1
             /\ pc[r] = "responded" =>
                   /\ response[r] = ikamet_status[r]
                   /\ response[r] = result_text[r]
                   /\ submissions[r] = bad_captcha_attempts[r] + Len(reports[r])
                   /\ reports[r][Len(reports[r])] =
                         [action |-> "reportgood", id |-> captcha_key[r]])
    /\ [][\E r \in Requests :
             \A q \in Requests \ {r} : Local(q)' = Local(q)]_vars

\* C12 witness: both requests are in flight, each with its session open and
\* its own task id, one at a poll with two failed solves counted, the other
\* about to report a rejection with none
C12_Witness ==
    /\ pc["r1"] = "poll"
    /\ pc["r2"] = "report_bad"
    /\ driver["r1"] = "open"
    /\ driver["r2"] = "open"
    /\ bad_captcha_attempts["r1"] = 2
    /\ bad_captcha_attempts["r2"] = 0
    /\ captcha_key["r1"] # None
    /\ captcha_key["r2"] # None
    /\ captcha_key["r1"] # captcha_key["r2"]

====
